---- MODULE Spec2Model ----
(***************************************************************************)
(* Model of the array-backed Merkle tree of src/src/merkle.rs.             *)
(*                                                                         *)
(* Hash values are modelled as terms, so that hash_leaf and hash_node are  *)
(* injective and have disjoint ranges:                                     *)
(*   <<"leaf", d>>      hashv(&[LEAF_PREFIX, d])                           *)
(*   <<"node", l, r>>   hashv(&[NODE_PREFIX, l, r])                        *)
(*   <<"default">>      the DEFAULT_LEAF constant                          *)
(*   <<"zero">>         Hash::default(), the all-zero hash                 *)
(* Vectors are 1-based sequences; the code's 0-based index k is k + 1.     *)
(***************************************************************************)
EXTENDS Integers, Sequences, FiniteSets, TLC

\* ---------------------------------------------------------------- bounds
MaxLeaves == 3
NumData == 2
MaxRootCalls == 2
MaxArith == 70

Data == 1..NumData

\* ---------------------------------------------------------------- hashing
DEFAULT_LEAF == <<"default">>
ZeroHash == <<"zero">>

hash_leaf(leaf) == <<"leaf", leaf>>

hash_node(lnode, rnode) == <<"node", lnode, rnode>>

\* ---------------------------------------------------------------- results
None == [tag |-> "None"]
Some(v) == [tag |-> "Some", val |-> v]
Ok(v) == [tag |-> "Ok", val |-> v]
LeafIndexOutOfBounds == [tag |-> "Err"]
Panic == [tag |-> "Panic"]

\* ---------------------------------------------- capacity & level arithmetic
RECURSIVE CeilLog2From(_, _, _)
CeilLog2From(n, h, p) == IF p >= n THEN h ELSE CeilLog2From(n, h + 1, 2 * p)

\* fast_math::log2(n as f32).ceil() for n > 0, taken as the exact
\* ceil(log2(n)): the least h with 2^h >= n.  (The f32 conversion is exact
\* below 2^24, far above the sizes explored here.)
CeilLog2(n) == CeilLog2From(n, 0, 1)

calculate_height(leaf_count) ==
    IF leaf_count > 0 THEN CeilLog2(leaf_count) ELSE 0

calculate_next_level_len(current_level_len) ==
    IF current_level_len > 1
    THEN IF current_level_len % 2 = 0
         THEN current_level_len \div 2
         ELSE (current_level_len + 1) \div 2
    ELSE 0

RECURSIVE max_capacity_loop(_, _)
max_capacity_loop(level_leaf_count, node_count) ==
    IF level_leaf_count > 1
    THEN LET next == IF level_leaf_count % 2 = 0
                     THEN level_leaf_count \div 2
                     ELSE (level_leaf_count + 1) \div 2
         IN  max_capacity_loop(next, node_count + next)
    ELSE node_count

calculate_max_capacity_no_leaves(leaf_count) ==
    IF leaf_count > 0 THEN max_capacity_loop(leaf_count, 0) ELSE 0

calculate_max_capacity(leaf_count) ==
    IF leaf_count > 0 THEN max_capacity_loop(leaf_count, leaf_count) ELSE 0

\* ---------------------------------------------------------------- new
new_nodes(leaf_count) == [j \in 1..leaf_count |-> DEFAULT_LEAF]

\* ---------------------------------------------------------------- get_root
\* One chunk of `chunks(2)` over ns[lo..hi), hashed as lines 129-136 do:
\* a full pair as hash_node(l, r), a lone last node as hash_node(l, l).
hash_chunk_carry(ns, lo, hi) ==
    IF hi - lo >= 2 THEN hash_node(ns[lo + 1], ns[lo + 2]) ELSE ns[lo + 1]

hash_chunk(ns, lo, hi) ==
    IF hi - lo >= 2
    THEN hash_node(ns[lo + 1], ns[lo + 2])
    ELSE hash_node(ns[lo + 1], ns[lo + 1])

\* The while loop of get_root.  `pairs` is the chunk iterator over the
\* 0-based half-open range [lo, hi) of ns, lo being the next unread slot.
\* The result is the final node vector and whether a slice went out of
\* range (a panic).
RECURSIVE get_root_loop(_, _, _, _, _, _, _)
get_root_loop(ns, current_level, prev_level_len, current_level_len, level_cache, lo, hi) ==
    IF current_level = 0
    THEN [nodes |-> ns, panic |-> FALSE]
    ELSE IF hi - lo >= 1
    THEN get_root_loop(ns, current_level, prev_level_len, current_level_len,
                       Append(level_cache, hash_chunk(ns, lo, hi)),
                       IF hi - lo >= 2 THEN lo + 2 ELSE lo + 1, hi)
    ELSE LET ns2 == ns \o level_cache
             prev2 == prev_level_len + current_level_len
             len2 == calculate_next_level_len(current_level_len)
         IN  IF prev2 + len2 > Len(ns2)
             THEN [nodes |-> ns2, panic |-> TRUE]
             ELSE get_root_loop(ns2, current_level - 1, prev2, len2,
                                <<>>, prev2, prev2 + len2)

\* self.nodes.iter().last()
last_node_interior(ns) == IF Len(ns) <= 1 THEN None ELSE Some(ns[Len(ns)])

last_node(ns) == IF Len(ns) = 0 THEN None ELSE Some(ns[Len(ns)])

get_root(ns, n) ==
    LET r == get_root_loop(ns, calculate_height(n), 0, n, <<>>, 0, Len(ns))
    IN  [nodes |-> r.nodes,
         res |-> IF r.panic THEN Panic ELSE last_node(r.nodes)]

\* ---------------------------------------------------------------- get_opening
index_out_of_bounds_gt(leaf_index, n) == leaf_index > n

index_out_of_bounds(leaf_index, n) == leaf_index >= n

\* Lines 179-189: the 0-based position, inside the current level, of the
\* node recorded as sibling of the path node at current_index.
sibling_index_no_self(current_index, current_level_len) ==
    IF current_index % 2 = 0 THEN current_index + 1 ELSE current_index - 1

sibling_index(current_index, current_level_len) ==
    IF current_index % 2 = 0
    THEN IF current_index + 1 < current_level_len
         THEN current_index + 1
         ELSE current_index
    ELSE current_index - 1

\* The while loop of get_opening.  current_level_nodes is the slice
\* ns[lo..hi); pending is left_node/right_node (at most one is Some), kept
\* as a sequence of length 0 or 1.
RECURSIVE get_opening_loop(_, _, _, _, _, _, _, _, _)
get_opening_loop(ns, current_index, current_level_len, current_level, path, pending, lo, hi, prev_level_len) ==
    IF current_level = 0
    THEN Ok(path)
    ELSE LET path2 == path \o pending
             s == sibling_index(current_index, current_level_len)
         IN  IF s >= hi - lo
             THEN Panic
             ELSE LET prev2 == prev_level_len + current_level_len
                      len2 == calculate_next_level_len(current_level_len)
                  IN  IF prev2 + len2 > Len(ns)
                      THEN Panic
                      ELSE get_opening_loop(ns, current_index \div 2, len2,
                                            current_level - 1, path2,
                                            <<ns[lo + s + 1]>>,
                                            prev2, prev2 + len2, prev2)

get_opening(ns, n, leaf_index) ==
    IF index_out_of_bounds(leaf_index, n)
    THEN LeafIndexOutOfBounds
    ELSE IF n > Len(ns)
    THEN Panic
    ELSE get_opening_loop(ns, leaf_index, n, calculate_height(n) + 1, <<>>,
                          <<>>, 0, n, 0)

\* ---------------------------------------------------------------- verify_opening
RECURSIVE fold_opening(_, _, _, _)
fold_opening(opening, i, leaf, computed_root) ==
    IF i > Len(opening)
    THEN computed_root
    ELSE fold_opening(opening, i + 1, leaf,
                      IF i = 1
                      THEN hash_node(opening[i], leaf)
                      ELSE hash_node(opening[i], computed_root))

verify_opening(ns, n, opening, root, leaf_index) ==
    IF index_out_of_bounds(leaf_index, n)
    THEN LeafIndexOutOfBounds
    ELSE IF leaf_index >= Len(ns)
    THEN Panic
    ELSE Ok(fold_opening(opening, 1, ns[leaf_index + 1], ZeroHash) = root)

\* ---------------------------------------------------------------- get_value
get_value(ns, n, leaf_index) ==
    IF n > Len(ns)
    THEN Panic
    ELSE IF leaf_index < n THEN Some(ns[leaf_index + 1]) ELSE None

\* ---------------------------------------------------------------- insert
insert(ns, n, cursor, leaf) ==
    IF cursor = n
    THEN [nodes |-> ns, cursor |-> cursor, res |-> LeafIndexOutOfBounds]
    ELSE IF cursor >= Len(ns)
    THEN [nodes |-> ns, cursor |-> cursor, res |-> Panic]
    ELSE [nodes |-> [ns EXCEPT ![cursor + 1] = hash_leaf(leaf)],
          cursor |-> cursor + 1,
          res |-> Ok(TRUE)]

\* ---------------------------------------------------------------- state
VARIABLES
    leaf_count,          \* MerkleTree.leaf_count
    nodes,               \* MerkleTree.nodes
    current_leaf_index,  \* MerkleTree.current_leaf_index
    last,                \* the most recent call: its name, arguments, result
    panicked,            \* a call aborted with an out-of-range access
    root_calls,          \* history: number of get_root calls so far
    root_fill,           \* history: current_leaf_index at the first get_root
    root_ret,            \* history: what the most recent get_root returned
    inserted,            \* history: the leaf data of the successful inserts
    arith_n,             \* input of the level-arithmetic functions
    arith                \* their results on arith_n

vars == <<leaf_count, nodes, current_leaf_index, last, panicked, root_calls,
          root_fill, root_ret, inserted, arith_n, arith>>

tree == <<leaf_count, nodes, current_leaf_index>>

Call(op, index, opening, root, res) ==
    [op |-> op, index |-> index, opening |-> opening, root |-> root,
     res |-> res]

NoArith == [done |-> FALSE, height |-> 0, next_level_len |-> 0,
            max_capacity |-> 0]

\* MerkleTree::new(leaf_count)
Init ==
    /\ leaf_count \in 0..MaxLeaves
    /\ nodes = new_nodes(leaf_count)
    /\ current_leaf_index = 0
    /\ last = Call("new", 0, <<>>, ZeroHash, None)
    /\ panicked = FALSE
    /\ root_calls = 0
    /\ root_fill = 0
    /\ root_ret = None
    /\ inserted = <<>>
    /\ arith_n = 0
    /\ arith = NoArith

Indices == 0..MaxLeaves

Insert(d) ==
    /\ ~panicked
    /\ LET r == insert(nodes, leaf_count, current_leaf_index, d)
       IN  /\ nodes' = r.nodes
           /\ current_leaf_index' = r.cursor
           /\ last' = Call("insert", current_leaf_index, <<>>, ZeroHash, r.res)
           /\ panicked' = (r.res = Panic)
           /\ inserted' = IF r.res = Ok(TRUE) THEN Append(inserted, d)
                          ELSE inserted
    /\ UNCHANGED <<leaf_count, root_calls, root_fill, root_ret, arith_n,
                   arith>>

GetValue(i) ==
    /\ ~panicked
    /\ LET r == get_value(nodes, leaf_count, i)
       IN  /\ last' = Call("get_value", i, <<>>, ZeroHash, r)
           /\ panicked' = (r = Panic)
    /\ UNCHANGED <<tree, root_calls, root_fill, root_ret, inserted, arith_n,
                   arith>>

GetRoot ==
    /\ ~panicked
    /\ root_calls < MaxRootCalls
    /\ LET r == get_root(nodes, leaf_count)
       IN  /\ nodes' = r.nodes
           /\ last' = Call("get_root", 0, <<>>, ZeroHash, r.res)
           /\ panicked' = (r.res = Panic)
           /\ root_ret' = r.res
    /\ root_calls' = root_calls + 1
    /\ root_fill' = IF root_calls = 0 THEN current_leaf_index ELSE root_fill
    /\ UNCHANGED <<leaf_count, current_leaf_index, inserted, arith_n, arith>>

GetOpening(i) ==
    /\ ~panicked
    /\ LET r == get_opening(nodes, leaf_count, i)
       IN  /\ last' = Call("get_opening", i, <<>>, ZeroHash, r)
           /\ panicked' = (r = Panic)
    /\ UNCHANGED <<tree, root_calls, root_fill, root_ret, inserted, arith_n,
                   arith>>

\* Arguments a caller hands to verify_opening for index i.  As opening: the
\* one get_opening produces for i, or the empty one where get_opening gives
\* none.  As root: the last stored node (the root once get_root has run),
\* the all-zero hash, and the hash of leaf i and its right neighbour taken
\* in swapped order.
OpeningInputs(i) ==
    LET r == get_opening(nodes, leaf_count, i)
    IN  IF r.tag = "Ok" THEN {r.val} ELSE {<<>>}

RootInputs(i) ==
    {nodes[j] : j \in {Len(nodes)} \ {0}} \cup {ZeroHash}
      \cup {hash_node(nodes[j + 1], nodes[j]) : j \in {i + 1} \cap 1..(leaf_count - 1)}

VerifyOpening(i, opening, root) ==
    /\ ~panicked
    /\ LET r == verify_opening(nodes, leaf_count, opening, root, i)
       IN  /\ last' = Call("verify_opening", i, opening, root, r)
           /\ panicked' = (r = Panic)
    /\ UNCHANGED <<tree, root_calls, root_fill, root_ret, inserted, arith_n,
                   arith>>

Next ==
    \/ \E d \in Data : Insert(d)
    \/ \E i \in Indices : GetValue(i)
    \/ GetRoot
    \/ \E i \in Indices : GetOpening(i)
    \/ \E i \in Indices : \E o \in OpeningInputs(i) : \E r \in RootInputs(i) :
          VerifyOpening(i, o, r)

Spec == Init /\ [][Next]_vars

\* ------------------------------------------- level arithmetic as a machine
InitArith ==
    /\ leaf_count = 0
    /\ nodes = new_nodes(0)
    /\ current_leaf_index = 0
    /\ last = Call("new", 0, <<>>, ZeroHash, None)
    /\ panicked = FALSE
    /\ root_calls = 0
    /\ root_fill = 0
    /\ root_ret = None
    /\ inserted = <<>>
    /\ arith_n \in 0..MaxArith
    /\ arith = NoArith

Calculate ==
    /\ ~arith.done
    /\ arith' = [done |-> TRUE,
                 height |-> calculate_height(arith_n),
                 next_level_len |-> calculate_next_level_len(arith_n),
                 max_capacity |-> calculate_max_capacity(arith_n)]
    /\ UNCHANGED <<tree, last, panicked, root_calls, root_fill, root_ret,
                   inserted, arith_n>>

NextArith == Calculate

SpecArith == InitArith /\ [][NextArith]_vars

TypeOK ==
    /\ leaf_count \in 0..MaxLeaves
    /\ current_leaf_index \in 0..leaf_count
    /\ Len(nodes) >= leaf_count
    /\ panicked \in BOOLEAN
    /\ root_calls \in 0..MaxRootCalls

\* ------------------------------------------------------- reference tree
\* The Merkle tree over a leaf level, built level by level on sequences:
\* element j of the next level hashes elements 2j-1 and 2j of this one, a
\* final unpaired element being hashed with itself.
RefNextLevel(level) ==
    [j \in 1..((Len(level) + 1) \div 2) |->
        IF 2 * j <= Len(level)
        THEN hash_node(level[2 * j - 1], level[2 * j])
        ELSE hash_node(level[2 * j - 1], level[2 * j - 1])]

RECURSIVE RefLevels(_)
RefLevels(level) ==
    IF Len(level) <= 1 THEN level
    ELSE level \o RefLevels(RefNextLevel(level))

RECURSIVE RefRoot(_)
RefRoot(level) ==
    IF Len(level) <= 1 THEN level[1] ELSE RefRoot(RefNextLevel(level))

RECURSIVE Pow2(_)
Pow2(m) == IF m = 0 THEN 1 ELSE 2 * Pow2(m - 1)

\* Number of nodes of level m of a tree of n leaves, and the 0-based slot
\* of nodes where level m starts.
RefLevelLen(n, m) == (n + Pow2(m) - 1) \div Pow2(m)

RECURSIVE RefOffset(_, _)
RefOffset(n, m) ==
    IF m = 0 THEN 0 ELSE RefOffset(n, m - 1) + RefLevelLen(n, m - 1)

\* The leaf level after the successful inserts recorded in `inserted`.
LeafLevel ==
    [j \in 1..leaf_count |->
        IF j <= Len(inserted) THEN hash_leaf(inserted[j]) ELSE DEFAULT_LEAF]

\* The stored sibling, at level m, of the path node of leaf i.
RefSibling(i, m) ==
    LET p == i \div Pow2(m)
        len == RefLevelLen(leaf_count, m)
        off == RefOffset(leaf_count, m)
    IN  IF p % 2 = 1 THEN nodes[off + (p - 1) + 1]
        ELSE IF p + 1 < len THEN nodes[off + (p + 1) + 1]
        ELSE nodes[off + p + 1]

\* The tree was filled with leaf_count inserts and then finalized by exactly
\* one get_root call.
FilledOnce ==
    /\ leaf_count >= 1
    /\ root_calls = 1
    /\ root_fill = leaf_count
    /\ root_ret.tag = "Some"

\* The last call was verify_opening(get_opening(i), r, i) for a valid i.
VerifiedOwnOpening ==
    /\ last.op = "verify_opening"
    /\ last.index < leaf_count
    /\ get_opening(nodes, leaf_count, last.index).tag = "Ok"
    /\ last.opening = get_opening(nodes, leaf_count, last.index).val

\* ---------------------------------------------------------------- claims

\* C1: on a tree filled with leaf_count inserts and finalized by one
\* get_root call, verify_opening(get_opening(i), root, i) returns Ok(true)
\* for every valid leaf index i, root being what get_root returned.
C1_RoundTrip ==
    (FilledOnce /\ VerifiedOwnOpening /\ last.root = root_ret.val)
        => (last.res.tag = "Ok" /\ last.res.val = TRUE)

\* C2: the first get_root call after k successful inserts returns the
\* Merkle root of the leaf level [hash_leaf(x_0..x_{k-1}), DEFAULT_LEAF ...],
\* nodes then holds the levels concatenated bottom-up, and the returned root
\* is the last element of nodes.
C2_RootMatchesReference ==
    (last.op = "get_root" /\ root_calls = 1 /\ leaf_count >= 1)
        => /\ last.res.tag = "Some"
           /\ last.res.val = RefRoot(LeafLevel)
           /\ nodes = RefLevels(LeafLevel)
           /\ last.res.val = nodes[Len(nodes)]

C2_Witness ==
    /\ last.op = "get_root"
    /\ root_calls = 1
    /\ leaf_count = 3
    /\ current_leaf_index = 2
    /\ last.res.tag = "Some"
    /\ Len(nodes) = 6

\* C3: insert on a full tree, and get_opening / verify_opening with an index
\* >= leaf_count, return Err(LeafIndexOutOfBounds) and leave leaf_count,
\* nodes and current_leaf_index unchanged.
C3_OutOfBounds ==
    [][ /\ (last'.op = "insert" /\ current_leaf_index = leaf_count)
            => (last'.res.tag = "Err" /\ UNCHANGED tree)
        /\ (last'.op \in {"get_opening", "verify_opening"}
              /\ last'.index >= leaf_count)
            => (last'.res.tag = "Err" /\ UNCHANGED tree) ]_vars

C3_Witness ==
    /\ last.op = "insert"
    /\ last.res.tag = "Err"
    /\ leaf_count >= 1
    /\ current_leaf_index = leaf_count
    /\ last.index = leaf_count

\* C4: after exactly one get_root call, get_opening(i) for a valid i returns
\* height(leaf_count) hashes, the m-th being the stored sibling at level m of
\* the node on the path from leaf i to the root.
C4_OpeningContent ==
    (last.op = "get_opening" /\ root_calls = 1 /\ last.index < leaf_count)
        => /\ last.res.tag = "Ok"
           /\ Len(last.res.val) = calculate_height(leaf_count)
           /\ \A m \in 0..(calculate_height(leaf_count) - 1) :
                 last.res.val[m + 1] = RefSibling(last.index, m)

C4_Witness ==
    /\ last.op = "get_opening"
    /\ root_calls = 1
    /\ leaf_count = 3
    /\ last.index = 2
    /\ last.res.tag = "Ok"
    /\ Len(last.res.val) = 2
    /\ last.res.val[1] = nodes[3]

\* C5: no call aborts with an out-of-range array access.
C5_NoPanic == ~panicked

\* C6: on a filled tree finalized by one get_root call,
\* verify_opening(get_opening(i), r, i) returns Ok(false) for every hash r
\* that differs from the root get_root returned.
C6_RejectsWrongRoot ==
    (FilledOnce /\ VerifiedOwnOpening /\ last.root # root_ret.val)
        => (last.res.tag = "Ok" /\ last.res.val = FALSE)

\* C7: for new(1) after one insert and one get_root call, height is 0,
\* get_root returned the leaf's own hash, get_opening(0) returns the empty
\* sequence, and verify_opening(<<>>, r, 0) returns Ok(true) exactly when r
\* is the leaf hash stored at slot 0.
C7_SingleLeaf ==
    (FilledOnce /\ leaf_count = 1)
        => /\ calculate_height(leaf_count) = 0
           /\ root_ret.val = nodes[1]
           /\ (last.op = "get_opening" /\ last.index = 0)
                => (last.res.tag = "Ok" /\ last.res.val = <<>>)
           /\ (last.op = "verify_opening" /\ last.index = 0
                 /\ last.opening = <<>>)
                => /\ last.res.tag = "Ok"
                   /\ last.res.val = (last.root = nodes[1])

\* C8 (as stated): get_root returns None when leaf_count == 0 and also when
\* no leaf has been inserted yet.
C8_AbsentRoot ==
    (last.op = "get_root" /\ (leaf_count = 0 \/ current_leaf_index = 0))
        => last.res.tag = "None"

\* C8 (amended): get_root returns None exactly when leaf_count == 0; with
\* leaf_count >= 1 it returns a hash, also before any insert.
C8_AbsentRootIffEmpty ==
    (last.op = "get_root")
        => (last.res.tag = "None" <=> leaf_count = 0)
           /\ (leaf_count >= 1 => last.res.tag = "Some")

C8_Witness ==
    /\ last.op = "get_root"
    /\ leaf_count >= 1
    /\ current_leaf_index = 0
    /\ last.res.tag = "Some"

\* C9: nodes.len() never exceeds calculate_max_capacity(leaf_count), and it
\* equals leaf_count before the first get_root call.
C9_Capacity ==
    /\ Len(nodes) <= calculate_max_capacity(leaf_count)
    /\ root_calls = 0 => Len(nodes) = leaf_count

\* C10: calculate_max_capacity(n) is the sum of the level lengths obtained
\* by repeated calculate_next_level_len down to the level of length 1, and
\* calculate_height(n) is the number of calculate_next_level_len steps that
\* reduce n to 1.
RECURSIVE LevelSum(_)
LevelSum(n) ==
    IF n <= 1 THEN n ELSE n + LevelSum(calculate_next_level_len(n))

RECURSIVE Halvings(_)
Halvings(n) ==
    IF n <= 1 THEN 0 ELSE 1 + Halvings(calculate_next_level_len(n))

C10_LevelArithmetic ==
    arith.done
        => /\ arith.max_capacity = LevelSum(arith_n)
           /\ arith.height = Halvings(arith_n)

C10_Witness ==
    /\ arith.done
    /\ arith_n = 11
    /\ arith.max_capacity = 23
    /\ arith.height = 4

====
